---- MODULE Spec2Model ----
(***************************************************************************)
(* Model of tutor_app.py, the Streamlit front end of the Adaptive AI       *)
(* Tutor.  One script run is one action: the run triggered by the          *)
(* "Generate Tutor" button (lines 95-136) and the run triggered by a       *)
(* submitted chat input (lines 139-166).  Text is a sequence of            *)
(* characters.  The remote provider is an input: each run that reaches     *)
(* chat.send_message draws the outcome of that call from Outcomes.         *)
(***************************************************************************)
EXTENDS Integers, Sequences, FiniteSets, TLC

VARIABLES
  session_state,  \* st.session_state: a mapping from the keys present to values
  form,           \* the widget values read by the last button run
  trigger,        \* the widget that triggered the last run
  ui,             \* the status element rendered by the last run
  trace,          \* the library calls made by the last run, in order
  nextChat        \* identity of the next object returned by start_chat

vars == <<session_state, form, trigger, ui, trace, nextChat>>

\* ---------------------------------------------------------------- bounds
MaxLen   == 3   \* longest transcript explored
MaxFiles == 2   \* most uploaded files explored
MaxChats == 3   \* most start_chat calls explored

\* ---------------------------------------------------------------- inputs
DefaultClassName == << "C", "S" >>
DefaultTopicList == << "T" >>

ApiKeys    == { <<>>, << "K" >> }
ClassNames == { <<>>, DefaultClassName }
TopicLists == { <<>>, DefaultTopicList }
FileNames  == { << "a" >>, << "b", "c" >> }
FileLists  == UNION { [1..n -> FileNames] : n \in 0..MaxFiles }
UserMsgs   == { << "m" >>, << "n" >> }
Replies    == { << "r" >>, << "s" >> }

\* The uploader is read only at line 107, after validation: forms with an
\* empty text field are enumerated with at most one uploaded file.
Forms ==
  { f \in [api_key : ApiKeys, class_name : ClassNames,
            topic_list : TopicLists, uploaded_files : FileLists] :
      (f.api_key = <<>> \/ f.class_name = <<>> \/ f.topic_list = <<>>)
        => Len(f.uploaded_files) <= 1 }

\* What chat.send_message(...) followed by reading .text can do: the call
\* raises, the call returns a response whose .text raises, or the text is read.
Outcomes ==
  { [status |-> "raised", reply |-> <<>>], [status |-> "notext", reply |-> <<>>] }
  \cup { [status |-> "ok", reply |-> r] : r \in Replies }

\* ---------------------------------------------------------------- prompt
\* The four literal segments of PROMPT_TEMPLATE around its three fields,
\* in the order the fields occur: class_name, file_names_str, topic_list.
TemplateHead   == << "...for the university-level course, \"" >>
TemplateFiles  == << "\"...a set of files for context named: " >>
TemplateTopics == << ".\n2. ...core topics I need to master for my exam:\n" >>
TemplateTail   == << "\n...ready to begin with the first targeted quiz.\n" >>

NoFilesStr == << "No files provided. Using topic list only." >>
Separator  == << ",", " " >>

RECURSIVE JoinReversed(_)
JoinReversed(file_names) ==
  IF Len(file_names) = 0 THEN <<>>
  ELSE IF Len(file_names) = 1 THEN file_names[1]
  ELSE JoinReversed(Tail(file_names)) \o Separator \o Head(file_names)

\* ", ".join(file_names)
RECURSIVE Join(_)
Join(file_names) ==
  IF Len(file_names) = 0 THEN <<>>
  ELSE IF Len(file_names) = 1 THEN file_names[1]
  ELSE Head(file_names) \o Separator \o Join(Tail(file_names))

FileNamesStr(file_names) ==
  IF file_names = <<>> THEN NoFilesStr ELSE Join(file_names)

Format(class_name, topic_list, file_names_str) ==
  TemplateHead \o class_name \o TemplateFiles \o file_names_str
    \o TemplateTopics \o topic_list \o TemplateTail

\* ---------------------------------------------------------------- helpers
ValidateAnyField(api_key, class_name, topic_list) ==
  IF api_key = <<>> THEN "key_error"
  ELSE IF class_name = <<>> /\ topic_list = <<>> THEN "fields_error"
  ELSE "ok"

\* The if / elif / else of the button handler.
Validate(api_key, class_name, topic_list) ==
  IF api_key = <<>> THEN "key_error"
  ELSE IF class_name = <<>> \/ topic_list = <<>> THEN "fields_error"
  ELSE "ok"

EntryAlwaysAssistant(role, content) == [role |-> "assistant", content |-> content]

Entry(role, content) == [role |-> role, content |-> content]

Has(ss, key) == key \in DOMAIN ss

SetItem(ss, key, value) ==
  [k \in DOMAIN ss \cup {key} |-> IF k = key THEN value ELSE ss[k]]

StoreChatDropped(ss, chat) == ss

\* st.session_state.gemini_chat = chat
StoreChat(ss, chat) == SetItem(ss, "gemini_chat", chat)

StoreMessagesExtending(ss, text) ==
  SetItem(ss, "messages",
          (IF Has(ss, "messages") THEN ss["messages"] ELSE <<>>)
            \o << Entry("assistant", text) >>)

\* st.session_state.messages = [{"role": "assistant", "content": ...}]
StoreMessages(ss, text) ==
  SetItem(ss, "messages", << Entry("assistant", text) >>)

AppendMessageInFront(ss, entry) ==
  SetItem(ss, "messages", << entry >> \o ss["messages"])

\* st.session_state.messages.append(...)
AppendMessage(ss, entry) ==
  SetItem(ss, "messages", Append(ss["messages"], entry))

Call(fn, chat, arg, o) ==
  [fn |-> fn, chat |-> chat, arg |-> arg, status |-> o.status, reply |-> o.reply]

Returned == [status |-> "ok", reply |-> <<>>]

\* ---------------------------------------------------------------- state
EmptyState == [k \in {} |-> <<>>]

Init ==
  /\ session_state = EmptyState
  /\ form = [api_key |-> <<>>, class_name |-> DefaultClassName,
             topic_list |-> DefaultTopicList, uploaded_files |-> <<>>]
  /\ trigger = "none"
  /\ ui = "none"
  /\ trace = <<>>
  /\ nextChat = 1

\* The run in which st.button("Generate Tutor") returns True, with the
\* widgets holding f and the provider answering o.
button(f, o) ==
  LET v == Validate(f.api_key, f.class_name, f.topic_list) IN
  /\ form' = f
  /\ trigger' = "button"
  /\ IF v # "ok"
     THEN /\ ui' = v
          /\ trace' = <<>>
          /\ UNCHANGED <<session_state, nextChat>>
     ELSE /\ nextChat < MaxChats
          /\ LET file_names_str == FileNamesStr(f.uploaded_files)
                 final_prompt == Format(f.class_name, f.topic_list, file_names_str)
                 chat == nextChat
                 stored == StoreChat(session_state, chat)
             IN /\ trace' = << Call("configure", 0, f.api_key, Returned),
                               Call("start_chat", chat, <<>>, Returned),
                               Call("send_message", chat, final_prompt, o) >>
                /\ nextChat' = nextChat + 1
                /\ session_state' =
                     IF o.status = "raised" THEN session_state
                     ELSE IF o.status = "notext" THEN stored
                     ELSE StoreMessages(stored, o.reply)
                /\ ui' = IF o.status = "ok" THEN "generate_success"
                                            ELSE "generate_error"

\* The run in which st.chat_input(...) returns the submitted text prompt,
\* with the provider answering o.
chat_input(prompt, o) ==
  /\ Has(session_state, "messages")
  /\ Len(session_state["messages"]) + (IF o.status = "ok" THEN 2 ELSE 1) <= MaxLen
  /\ trigger' = "chat_input"
  /\ LET appended == AppendMessage(session_state, Entry("user", prompt)) IN
     IF ~Has(appended, "gemini_chat")
     THEN /\ session_state' = appended
          /\ trace' = <<>>
          /\ ui' = "send_error"
     ELSE /\ trace' = << Call("send_message", appended["gemini_chat"], prompt, o) >>
          /\ IF o.status = "ok"
             THEN /\ session_state' =
                       AppendMessage(appended, Entry("assistant", o.reply))
                  /\ ui' = "reply"
             ELSE /\ session_state' = appended
                  /\ ui' = "send_error"
  /\ UNCHANGED <<form, nextChat>>

Next ==
  \/ \E f \in Forms, o \in Outcomes : button(f, o)
  \/ \E prompt \in UserMsgs, o \in Outcomes : chat_input(prompt, o)

Spec == Init /\ [][Next]_vars

\* ---------------------------------------------------------------- properties
IsPrefix(s, t) == Len(s) <= Len(t) /\ SubSeq(t, 1, Len(s)) = s

LastCall(t) == t[Len(t)]

\* The last run was a button run that passed validation and whose provider
\* exchange failed / succeeded.
GenerateFailed    == trigger = "button" /\ trace # <<>> /\ LastCall(trace).status # "ok"
GenerateSucceeded == trigger = "button" /\ trace # <<>> /\ LastCall(trace).status = "ok"

\* The last run was a chat-input run whose provider exchange failed / succeeded.
SendFailed    == trigger = "chat_input" /\ (trace = <<>> \/ LastCall(trace).status # "ok")
SendSucceeded == trigger = "chat_input" /\ trace # <<>> /\ LastCall(trace).status = "ok"

\* C1: a chat-input run whose provider call fails leaves the transcript
\* with the length it had before the run.
SendFailureKeepsLength ==
  [][ (SendFailed' /\ Has(session_state, "messages"))
        => Len(session_state'["messages"]) = Len(session_state["messages"]) ]_vars

\* C2: a button run whose provider exchange fails (the call raises, or the
\* reply text cannot be read) leaves both the stored handle and the stored
\* transcript exactly as they were.
GenerateFailureKeepsState ==
  [][ GenerateFailed' => session_state' = session_state ]_vars

\* C3: after a successful generate the transcript is exactly one assistant
\* entry holding the reply; a successful send of m answered by r extends the
\* transcript by (user, m) then (assistant, r) and by nothing else.
TranscriptGrowth ==
  [][ /\ GenerateSucceeded' =>
           /\ Has(session_state', "messages")
           /\ session_state'["messages"] =
                << [role |-> "assistant", content |-> LastCall(trace').reply] >>
      /\ (SendSucceeded' /\ Has(session_state, "messages")) =>
           /\ Has(session_state', "messages")
           /\ session_state'["messages"] =
                session_state["messages"]
                  \o << [role |-> "user", content |-> LastCall(trace').arg],
                        [role |-> "assistant", content |-> LastCall(trace').reply] >>
    ]_vars

TranscriptGrowthWitness ==
  /\ SendSucceeded
  /\ Has(session_state, "messages")
  /\ Len(session_state["messages"]) = 3
  /\ session_state["messages"][2].role = "user"
  /\ session_state["messages"][3].role = "assistant"

\* C4 as stated: every button run made while a session exists replaces the
\* stored handle and leaves nothing of the prior transcript.
GenerateAlwaysReplaces ==
  [][ (trigger' = "button" /\ Has(session_state, "messages")
         /\ Has(session_state, "gemini_chat"))
        => /\ Has(session_state', "gemini_chat")
           /\ session_state'["gemini_chat"] # session_state["gemini_chat"]
           /\ Has(session_state', "messages") => Len(session_state'["messages"]) <= 1
    ]_vars

\* C4: a button run that succeeds while a session exists stores the handle
\* created by this run, which is not the prior one, and a transcript that
\* consists of the new first reply alone.
SuccessfulGenerateReplaces ==
  [][ (GenerateSucceeded' /\ Has(session_state, "messages")
         /\ Has(session_state, "gemini_chat"))
        => /\ Has(session_state', "gemini_chat")
           /\ session_state'["gemini_chat"] # session_state["gemini_chat"]
           /\ session_state'["gemini_chat"] = LastCall(trace').chat
           /\ session_state'["gemini_chat"] = nextChat
           /\ Has(session_state', "messages")
           /\ Len(session_state'["messages"]) = 1
           /\ session_state'["messages"][1].content = LastCall(trace').reply
    ]_vars

SuccessfulGenerateReplacesWitness ==
  /\ GenerateSucceeded
  /\ Has(session_state, "gemini_chat")
  /\ session_state["gemini_chat"] >= 2
  /\ Has(session_state, "messages")
  /\ Len(session_state["messages"]) = 1

\* C5: a button run with an empty API key, course name or topic list makes
\* no library call at all (so no prompt reaches the provider), surfaces one of
\* the two form errors, and leaves session state unchanged.
EmptyField(f) == f.api_key = <<>> \/ f.class_name = <<>> \/ f.topic_list = <<>>

RejectedConfigurationDoesNothing ==
  [][ (trigger' = "button" /\ EmptyField(form'))
        => /\ trace' = <<>>
           /\ ui' \in {"key_error", "fields_error"}
           /\ session_state' = session_state ]_vars

RejectedConfigurationWitness ==
  /\ trigger = "button"
  /\ form.api_key # <<>>
  /\ form.class_name = <<>>
  /\ form.topic_list # <<>>
  /\ ui = "fields_error"
  /\ Has(session_state, "messages")

\* C6: every chat-input run, failed or not, keeps the transcript it found as
\* a prefix of the transcript it leaves.
TranscriptAppendOnly ==
  [][ (trigger' = "chat_input" /\ Has(session_state, "messages"))
        => /\ Has(session_state', "messages")
           /\ IsPrefix(session_state["messages"], session_state'["messages"]) ]_vars

TranscriptAppendOnlyWitness ==
  /\ SendFailed
  /\ Has(session_state, "messages")
  /\ Len(session_state["messages"]) = 3
  /\ session_state["messages"][2].role = "user"
  /\ session_state["messages"][3].role = "user"

\* C7: whenever the transcript key is present the chat handle key is present
\* too, and no chat-input run found the handle missing.
ChatInputImpliesSession ==
  /\ Has(session_state, "messages") => Has(session_state, "gemini_chat")
  /\ trigger = "chat_input" => trace # <<>>

ChatInputImpliesSessionWitness ==
  /\ trigger = "chat_input"
  /\ trace # <<>>
  /\ Has(session_state, "messages")
  /\ Has(session_state, "gemini_chat")

\* C9: the prompt handed to the provider is the template with the course
\* name, the file text and the topic list in their places, where the file
\* text is the placeholder sentence for no files and otherwise the names in
\* upload order, each followed (except the last) by a comma and a space.
RECURSIVE Offset(_, _)
Offset(names, i) ==
  IF i = 1 THEN 0 ELSE Offset(names, i - 1) + Len(names[i - 1]) + 2

PromptSubstitutesFileNames ==
  (trigger = "button" /\ trace # <<>>) =>
    LET p     == LastCall(trace).arg
        names == form.uploaded_files
        n     == Len(names)
        lead  == Len(TemplateHead) + Len(form.class_name) + Len(TemplateFiles)
        rest  == Len(TemplateTopics) + Len(form.topic_list) + Len(TemplateTail)
        s     == SubSeq(p, lead + 1, Len(p) - rest)
    IN /\ LastCall(trace).fn = "send_message"
       /\ p = TemplateHead \o form.class_name \o TemplateFiles \o s
                \o TemplateTopics \o form.topic_list \o TemplateTail
       /\ n = 0 => s = << "No files provided. Using topic list only." >>
       /\ n > 0 =>
            /\ Len(s) = Offset(names, n) + Len(names[n])
            /\ \A i \in 1..n :
                 LET off == Offset(names, i)
                     len == Len(names[i])
                 IN /\ SubSeq(s, off + 1, off + len) = names[i]
                    /\ i < n => (s[off + len + 1] = "," /\ s[off + len + 2] = " ")

PromptSubstitutesFileNamesWitness ==
  /\ trigger = "button"
  /\ trace # <<>>
  /\ Len(form.uploaded_files) = 2
  /\ form.uploaded_files[1] # form.uploaded_files[2]
  /\ Len(form.uploaded_files[1]) = 2

\* C10: whenever a transcript exists it is non-empty, starts with an
\* assistant entry, and no two consecutive entries have the same role.
RolesAlternate ==
  Has(session_state, "messages") =>
    LET msgs == session_state["messages"] IN
    /\ Len(msgs) > 0
    /\ msgs[1].role = "assistant"
    /\ \A i \in 1..(Len(msgs) - 1) : msgs[i].role # msgs[i + 1].role

====
